---------------------------- MODULE Spec2Model ----------------------------
(***************************************************************************)
(* A model of the cgo HID access layer of hid_enabled.go: Enumerate under  *)
(* the process-wide enumerateLock, DeviceInfo.Open, and Device.Close /     *)
(* DoWrite / DoRead / getError, run by several goroutines.  Every access   *)
(* to shared memory (enumerateLock, a Device's device field) and every     *)
(* native call is one step of the calling goroutine; memory is             *)
(* sequentially consistent.  The native hidapi library is the environment: *)
(* what its calls return is chosen nondeterministically.                   *)
(*                                                                         *)
(*   SpecEnum  goroutines that enumerate concurrently, devices come and go *)
(*   SpecEnumFair  SpecEnum under a fair scheduler and a fair mutex        *)
(*   SpecDev   goroutines that open, use and close Devices concurrently    *)
(*   SpecOne   one goroutine that opens, uses and closes Devices           *)
(*   Spec      all of it                                                   *)
(***************************************************************************)
EXTENDS Integers, Sequences, FiniteSets, TLC

\* ------------------------------------------------------------------ bounds
NumThreads == 2
MaxDevices == 2
MaxLen == 2

Threads == 1..NumThreads

\* ------------------------------------------------------------- Go / C data
\* A nil pointer (a nil *C.hid_device, a nil list node, a nil *Device).
Nil == 0

\* The physical HID devices that can be attached, by native path.
Paths == {"/dev/hidraw0", "/dev/hidraw1"}

\* A wchar_t* of the native layer: a null pointer, or the units it points to.
WNull == [null |-> TRUE, units |-> <<>>]

W(units) == [null |-> FALSE, units |-> units]

\* The hid_device_info record the native layer reports for a physical device.
NativeInfo(p) ==
    IF p = "/dev/hidraw0"
    THEN [path |-> p, vendor_id |-> 1, product_id |-> 1, release_number |-> 256,
          usage_page |-> 65280, usage |-> 1, interface_number |-> 0,
          serial_number |-> W(<<83, 233>>), product_string |-> WNull,
          manufacturer_string |-> W(<<55296>>)]
    ELSE [path |-> p, vendor_id |-> 1, product_id |-> 2, release_number |-> 257,
          usage_page |-> 1, usage |-> 6, interface_number |-> -1,
          serial_number |-> WNull, product_string |-> W(<<75>>),
          manufacturer_string |-> W(<<65, 66>>)]

\* What a read of freed or invalidated list memory may produce.
GarbageInfo ==
    [path |-> "", vendor_id |-> 57005, product_id |-> 48879, release_number |-> 0,
     usage_page |-> 0, usage |-> 0, interface_number |-> 0,
     serial_number |-> WNull, product_string |-> WNull,
     manufacturer_string |-> WNull]

U16(x) == x % 65536

\* The UTF-8 bytes of one rune, as string(r) yields them (runes below 2048).
RuneBytes(r) == IF r < 128 THEN <<r>> ELSE <<192 + (r \div 64), 128 + (r % 64)>>

IsSurrogate(r) == r >= 55296 /\ r <= 57343

RECURSIVE Utf8(_)
Utf8(units) ==
    IF units = <<>> THEN <<>> ELSE RuneBytes(Head(units)) \o Utf8(Tail(units))

\* wcharTToString: the decoded Go string and whether decoding failed; a
\* failed decoding yields the empty string.
wcharTToString(w) ==
    IF \E i \in 1..Len(w.units) : IsSurrogate(w.units[i])
    THEN [str |-> <<>>, failed |-> TRUE]
    ELSE [str |-> Utf8(w.units), failed |-> FALSE]

\* A loop body that takes the product id for the vendor id and back.
ToDeviceInfo_SwappedIds(node) ==
    [Path |-> node.path,
     VendorID |-> U16(node.product_id),
     ProductID |-> U16(node.vendor_id),
     Release |-> U16(node.release_number),
     UsagePage |-> U16(node.usage_page),
     Usage |-> U16(node.usage),
     Interface |-> node.interface_number,
     Serial |-> IF node.serial_number.null THEN <<>>
                ELSE wcharTToString(node.serial_number).str,
     Product |-> IF node.product_string.null THEN <<>>
                 ELSE wcharTToString(node.product_string).str,
     Manufacturer |-> IF node.manufacturer_string.null THEN <<>>
                      ELSE wcharTToString(node.manufacturer_string).str]

\* The DeviceInfo literal and the three guarded text fields of the loop body.
ToDeviceInfo(node) ==
    [Path |-> node.path,
     VendorID |-> U16(node.vendor_id),
     ProductID |-> U16(node.product_id),
     Release |-> U16(node.release_number),
     UsagePage |-> U16(node.usage_page),
     Usage |-> U16(node.usage),
     Interface |-> node.interface_number,
     Serial |-> IF node.serial_number.null THEN <<>>
                ELSE wcharTToString(node.serial_number).str,
     Product |-> IF node.product_string.null THEN <<>>
                 ELSE wcharTToString(node.product_string).str,
     Manufacturer |-> IF node.manufacturer_string.null THEN <<>>
                      ELSE wcharTToString(node.manufacturer_string).str]

\* The zero DeviceInfo.
NoInfo ==
    [Path |-> "", VendorID |-> 0, ProductID |-> 0, Release |-> 0, UsagePage |-> 0,
     Usage |-> 0, Interface |-> 0, Serial |-> <<>>, Product |-> <<>>,
     Manufacturer |-> <<>>]

\* The paths in the order the native layer lists them.
PathOrder == <<"/dev/hidraw0", "/dev/hidraw1">>

RECURSIVE FilterSeq(_, _, _, _)
FilterSeq(order, att, vid, pid) ==
    IF order = <<>> THEN <<>>
    ELSE LET p == Head(order)
             rest == FilterSeq(Tail(order), att, vid, pid)
             n == NativeInfo(p)
         IN IF /\ p \in att
               /\ (vid = 0 \/ n.vendor_id = vid)
               /\ (pid = 0 \/ n.product_id = pid)
            THEN <<n>> \o rest
            ELSE rest

\* hid_enumerate: the list of the attached devices matching (vid, pid).
hid_enumerate(att, vid, pid) == FilterSeq(PathOrder, att, vid, pid)

\* The vendor and product ids callers pass.
Ids == {0, 1, 2}

\* ------------------------------------------------------------------ errors
ErrNil == [kind |-> "nil", text |-> <<>>, code |-> 0]

ErrDeviceClosed == [kind |-> "ErrDeviceClosed", text |-> <<>>, code |-> 0]

ErrOpenFailed == [kind |-> "hidapi: failed to open device", text |-> <<>>, code |-> 0]

VARIABLES
    GOOS,           \* runtime.GOOS of the build
    enumerateLock,  \* the thread holding enumerateLock, or Nil
    attached,       \* the physical devices attached right now
    nativeList,     \* per thread, the native list its hid_enumerate produced
    fault,          \* TRUE once freed or invalidated list memory was used
    devices,        \* the Device objects, in the order Open created them
    handles,        \* the native handles, in the order hid_open_path made them
    pc,             \* per thread, its position
    ef,             \* per thread, the locals of Enumerate
    closeReturned,  \* the Devices on which a Close call has returned
    io,             \* per thread, the locals of Open/Close/DoWrite/DoRead
    result          \* per thread, what its last call returned

vars == <<GOOS, enumerateLock, attached, nativeList, fault, devices, handles,
          closeReturned, pc, ef, io, result>>

enumVars == <<enumerateLock, nativeList, fault, ef>>

devVars == <<devices, handles, closeReturned, io>>

NoList == [nodes |-> <<>>, state |-> "none"]

\* The locals of Enumerate: its arguments, the walk cursor head, the head the
\* defer statement captured, the records copied so far, and the arguments
\* hid_free_enumeration was called with.
NoEf == [vendorID |-> 0, productID |-> 0, head |-> Nil, deferred |-> Nil,
         infos |-> <<>>, frees |-> <<>>]

NoResult == [op |-> "none", infos |-> <<>>, dev |-> Nil, n |-> 0, err |-> ErrNil]


\* A time.Duration: its sign, its whole milliseconds as hi * 2^31 + lo, and
\* the nanoseconds left over (below one millisecond).
Dur(neg, hi, lo, ns) == [neg |-> neg, hi |-> hi, lo |-> lo, ns |-> ns]

ZeroDur == Dur(FALSE, 0, 0, 0)

NoIo == [dev |-> Nil, info |-> NoInfo, b |-> <<>>, featureReport |-> FALSE,
         timeout |-> ZeroDur, device |-> Nil, report |-> <<>>, calls |-> <<>>,
         afterClose |-> FALSE]

GoosValues == {"windows", "linux", "darwin"}

Init ==
    /\ GOOS \in GoosValues
    /\ enumerateLock = Nil
    /\ attached = {"/dev/hidraw0"}
    /\ nativeList = [t \in Threads |-> NoList]
    /\ fault = FALSE
    /\ devices = <<>>
    /\ handles = <<>>
    /\ closeReturned = {}
    /\ pc = [t \in Threads |-> "idle"]
    /\ ef = [t \in Threads |-> NoEf]
    /\ io = [t \in Threads |-> NoIo]
    /\ result = [t \in Threads |-> NoResult]

\* Thread t is at `label`.  A thread that has just returned hands its result
\* to its caller before any other step is taken: the hand-over touches no
\* shared memory, so taking it first loses no interleaving.
At(t, label) == pc[t] = label /\ \A u \in Threads : pc[u] # "done"

\* The call of thread t returns r.
Finish(t, r) ==
    /\ pc' = [pc EXCEPT ![t] = "done"]
    /\ result' = [result EXCEPT ![t] = r]

\* The caller has its result and is free to make its next call.
Return(t) ==
    /\ pc[t] = "done"
    /\ pc' = [pc EXCEPT ![t] = "idle"]
    /\ ef' = [ef EXCEPT ![t] = NoEf]
    /\ io' = [io EXCEPT ![t] = NoIo]
    /\ result' = [result EXCEPT ![t] = NoResult]
    /\ nativeList' = [nativeList EXCEPT ![t] = NoList]
    /\ UNCHANGED <<GOOS, attached, enumerateLock, fault, devices, handles,
                   closeReturned>>

\* ------------------------------------------------------------- environment
\* A physical device is plugged in or pulled out.
Hotplug ==
    \E p \in Paths :
        /\ \A u \in Threads : pc[u] # "done"
        /\ attached' = IF p \in attached THEN attached \ {p} ELSE attached \cup {p}
        /\ UNCHANGED <<GOOS, enumVars, devVars, pc, result>>

\* --------------------------------------------------------------- Enumerate
\* A caller enters Enumerate(vendorID, productID).
CallEnumerate(t) ==
    \E vid \in Ids, pid \in Ids :
        /\ At(t, "idle")
        /\ pc' = [pc EXCEPT ![t] = "enum_lock"]
        /\ ef' = [ef EXCEPT ![t] = [NoEf EXCEPT !.vendorID = vid, !.productID = pid]]
        /\ UNCHANGED <<GOOS, attached, enumerateLock, nativeList, fault, devVars,
                       result>>

\* A Lock that does not wait for the mutex to be free.
EnumLock_NoWait(t) ==
    /\ At(t, "enum_lock")
    /\ enumerateLock' = t
    /\ pc' = [pc EXCEPT ![t] = "enum_native"]
    /\ UNCHANGED <<GOOS, attached, nativeList, fault, ef, devVars, result>>

\* enumerateLock.Lock(): blocks until the mutex is free, then takes it.
EnumLock(t) ==
    /\ At(t, "enum_lock")
    /\ enumerateLock = Nil
    /\ enumerateLock' = t
    /\ pc' = [pc EXCEPT ![t] = "enum_native"]
    /\ UNCHANGED <<GOOS, attached, nativeList, fault, ef, devVars, result>>

\* An Enumerate that defers the free before it tests the head for nil.
HidEnumerate_DeferFirst(t) ==
    /\ At(t, "enum_native")
    /\ LET list == hid_enumerate(attached, ef[t].vendorID, ef[t].productID)
           h == IF list = <<>> THEN Nil ELSE 1
       IN /\ nativeList' =
                [u \in Threads |->
                    IF u = t
                    THEN [nodes |-> list,
                          state |-> IF list = <<>> THEN "none" ELSE "live"]
                    ELSE IF nativeList[u].state = "live"
                         THEN [nativeList[u] EXCEPT !.state = "invalid"]
                         ELSE nativeList[u]]
          /\ pc' = [pc EXCEPT ![t] = IF h = Nil THEN "enum_free" ELSE "enum_walk"]
          /\ ef' = [ef EXCEPT ![t].head = h, ![t].deferred = h]
    /\ UNCHANGED <<GOOS, attached, enumerateLock, fault, devVars, result>>

\* head := C.hid_enumerate(...); a nil head returns nil; otherwise the free
\* of this head is deferred.  The native call releases every list an
\* earlier enumeration handed out and that is still in use.
HidEnumerate(t) ==
    /\ At(t, "enum_native")
    /\ LET list == hid_enumerate(attached, ef[t].vendorID, ef[t].productID)
       IN /\ nativeList' =
                [u \in Threads |->
                    IF u = t
                    THEN [nodes |-> list,
                          state |-> IF list = <<>> THEN "none" ELSE "live"]
                    ELSE IF nativeList[u].state = "live"
                         THEN [nativeList[u] EXCEPT !.state = "invalid"]
                         ELSE nativeList[u]]
          /\ IF list = <<>>
             THEN /\ pc' = [pc EXCEPT ![t] = "enum_unlock"]
                  /\ ef' = [ef EXCEPT ![t].head = Nil]
             ELSE /\ pc' = [pc EXCEPT ![t] = "enum_walk"]
                  /\ ef' = [ef EXCEPT ![t].head = 1, ![t].deferred = 1]
    /\ UNCHANGED <<GOOS, attached, enumerateLock, fault, devVars, result>>

\* A loop body that puts each record in front of the ones copied so far.
EnumWalk_Prepend(t) ==
    /\ At(t, "enum_walk")
    /\ LET l == nativeList[t]
           h == ef[t].head
           nx == IF h < Len(l.nodes) THEN h + 1 ELSE Nil
       IN /\ ef' = [ef EXCEPT ![t].infos = <<ToDeviceInfo(l.nodes[h])>> \o @,
                              ![t].head = nx]
          /\ pc' = [pc EXCEPT ![t] = IF nx = Nil THEN "enum_free" ELSE "enum_walk"]
    /\ UNCHANGED <<GOOS, attached, enumerateLock, nativeList, fault, devVars,
                   result>>

\* One iteration of the loop: copy the node at head, then head = head.next.
\* A node of a list that is no longer live holds anything.
EnumWalk(t) ==
    /\ At(t, "enum_walk")
    /\ LET l == nativeList[t]
           h == ef[t].head
           live == l.state = "live"
           next == IF h < Len(l.nodes) THEN h + 1 ELSE Nil
       IN \E node \in (IF live THEN {l.nodes[h]} ELSE {l.nodes[h], GarbageInfo}),
             nx \in (IF live THEN {next} ELSE {next, Nil}) :
                /\ ef' = [ef EXCEPT ![t].infos = Append(@, ToDeviceInfo(node)),
                                    ![t].head = nx]
                /\ pc' = [pc EXCEPT ![t] = IF nx = Nil THEN "enum_free"
                                           ELSE "enum_walk"]
                /\ fault' = (fault \/ ~live)
    /\ UNCHANGED <<GOOS, attached, enumerateLock, nativeList, devVars, result>>

\* hid_free_enumeration(h): releases the list h heads; NULL releases nothing.
FreeList(t, h) ==
    /\ ef' = [ef EXCEPT ![t].frees = Append(@, h)]
    /\ IF h = Nil
       THEN UNCHANGED <<nativeList, fault>>
       ELSE /\ nativeList' = [nativeList EXCEPT ![t].state = "freed"]
            /\ fault' = (fault \/ nativeList[t].state # "live")

\* A cleanup that frees the walk cursor, which is nil once the loop is over.
HidFreeEnumeration_Cursor(t) ==
    /\ At(t, "enum_free")
    /\ FreeList(t, ef[t].head)
    /\ pc' = [pc EXCEPT ![t] = "enum_unlock"]
    /\ UNCHANGED <<GOOS, attached, enumerateLock, devVars, result>>

\* The deferred C.hid_free_enumeration(head), with the head captured by the
\* defer statement.
HidFreeEnumeration(t) ==
    /\ At(t, "enum_free")
    /\ FreeList(t, ef[t].deferred)
    /\ pc' = [pc EXCEPT ![t] = "enum_unlock"]
    /\ UNCHANGED <<GOOS, attached, enumerateLock, devVars, result>>

\* An Unlock that only the path past the nil test runs.
EnumUnlock_NotOnNil(t) ==
    /\ At(t, "enum_unlock")
    /\ enumerateLock' = IF ef[t].deferred = Nil THEN enumerateLock ELSE Nil
    /\ Finish(t, [NoResult EXCEPT !.op = "Enumerate", !.infos = ef[t].infos])
    /\ UNCHANGED <<GOOS, attached, nativeList, fault, ef, devVars>>

\* The deferred enumerateLock.Unlock(), and the return of infos.
EnumUnlock(t) ==
    /\ At(t, "enum_unlock")
    /\ enumerateLock' = Nil
    /\ Finish(t, [NoResult EXCEPT !.op = "Enumerate", !.infos = ef[t].infos])
    /\ UNCHANGED <<GOOS, attached, nativeList, fault, ef, devVars>>

EnumNext ==
    \/ Hotplug
    \/ \E t \in Threads :
        \/ CallEnumerate(t)
        \/ EnumLock(t)
        \/ HidEnumerate(t)
        \/ EnumWalk(t)
        \/ HidFreeEnumeration(t)
        \/ EnumUnlock(t)
        \/ Return(t)

\* Threads that only enumerate, while devices come and go.
SpecEnum == Init /\ [][EnumNext]_vars

\* The steps of thread t inside Enumerate that wait for nothing: the native
\* calls, which terminate, the loop, the deferred calls and the return.
EnumRun(t) ==
    \/ HidEnumerate(t)
    \/ EnumWalk(t)
    \/ HidFreeEnumeration(t)
    \/ EnumUnlock(t)
    \/ Return(t)

\* SpecEnum under a fair scheduler: a goroutine that can run does run, and
\* sync.Mutex hands the lock to a goroutine that keeps waiting for it (its
\* starvation mode), however often other goroutines take it in between.
SpecEnumFair ==
    /\ SpecEnum
    /\ \A t \in Threads : WF_vars(EnumRun(t)) /\ SF_vars(EnumLock(t))

\* ------------------------------------------------------ Device: the data
\* The bytes callers write, and the payloads and read buffers they pass.
\* The arguments of a call are the caller's own values: each is drawn at the
\* step that first reads it.
Bytes == {0, 1}

Payloads == UNION {[1..n -> Bytes] : n \in 0..MaxLen}

Buffers == {[i \in 1..n |-> 0] : n \in 0..MaxLen}

\* timeout > 0
Positive(d) == ~d.neg /\ (d.hi > 0 \/ d.lo > 0 \/ d.ns > 0)

\* The timeouts callers pass: -1ms, 0, 0.5ms, 100ms and 2^31 ms.
Timeouts == {Dur(TRUE, 0, 1, 0), ZeroDur, Dur(FALSE, 0, 0, 500000),
             Dur(FALSE, 0, 100, 0), Dur(FALSE, 1, 0, 0)}

\* C.int(timeout / time.Millisecond) for timeout > 0: the low 32 bits of the
\* millisecond count, read as a signed int.
CIntMillis(d) == IF d.hi % 2 = 1 THEN (d.lo - 2147483647) - 1 ELSE d.lo

\* The last-error messages hid_error can hand out, and the errno values.
Messages == {WNull, W(<<73, 233>>), W(<<56320>>)}

Errnos == {5, 13}

\* What a native read or write can return for a length: -1, or a count.
NativeResults(len) == {-1} \cup 0..len

\* A framing that puts the report ID behind the payload.
Frame_Trailing(goos, b) == IF goos = "windows" THEN b \o <<0>> ELSE b

\* The report handed to the native write: a 0x00 report ID in front on
\* windows, the payload itself elsewhere.
Frame(goos, b) == IF goos = "windows" THEN <<0>> \o b ELSE b

\* An error translation that never looks at the message.
ErrorOf_ErrnoOnly(message, cErrno) ==
    [kind |-> "hidapi: unknown failure. Errno: ", text |-> <<>>, code |-> cErrno]

\* The two errors getError builds from hid_error's message and errno.
ErrorOf(message, cErrno) ==
    IF message.null
    THEN [kind |-> "hidapi: unknown failure. Errno: ", text |-> <<>>,
          code |-> cErrno]
    ELSE [kind |-> "hidapi: ", text |-> wcharTToString(message).str, code |-> 0]

\* A use of a native handle that hid_close has already released.
Stale(h) == h # Nil /\ handles[h].state = "closed"

\* One native call as the native layer sees it: the function, the handle,
\* the bytes and the millisecond argument it received, the count or message
\* it returned, and whether the handle had been released before the call.
Call(fn, h, data, ms, n, msg) ==
    [fn |-> fn, handle |-> h, data |-> data, ms |-> ms, n |-> n, msg |-> msg,
     stale |-> Stale(h)]

\* The call of hid_open_path that returned h.
OpenCall(h) ==
    [fn |-> "hid_open_path", handle |-> h, data |-> <<>>, ms |-> 0, n |-> 0,
     msg |-> WNull, stale |-> FALSE]

\* The number of Open calls in progress.
Opening == Cardinality({t \in Threads : pc[t] = "open_native"})

\* --------------------------------------------------------- DeviceInfo.Open
\* A caller enters info.Open() with a record an enumeration can return.
CallOpen(t) ==
    \E p \in Paths :
        /\ At(t, "idle")
        /\ Len(devices) + Opening < MaxDevices
        /\ pc' = [pc EXCEPT ![t] = "open_native"]
        /\ io' = [io EXCEPT ![t] = [NoIo EXCEPT !.info = ToDeviceInfo(NativeInfo(p))]]
        /\ UNCHANGED <<GOOS, attached, enumVars, devices, handles, closeReturned,
                       result>>

\* An Open that wraps whatever hid_open_path returned, NULL included.
OpenNative_NoNilCheck(t) ==
    /\ At(t, "open_native")
    /\ \/ /\ io' = [io EXCEPT ![t].calls = Append(@, OpenCall(Nil))]
          /\ devices' = Append(devices, [DeviceInfo |-> io[t].info, device |-> Nil])
          /\ Finish(t, [NoResult EXCEPT !.op = "Open", !.dev = Len(devices) + 1])
          /\ UNCHANGED handles
       \/ /\ io[t].info.Path \in attached
          /\ io' = [io EXCEPT ![t].calls = Append(@, OpenCall(Len(handles) + 1))]
          /\ handles' = Append(handles, [path |-> io[t].info.Path, state |-> "open",
                                         closes |-> 0])
          /\ devices' = Append(devices, [DeviceInfo |-> io[t].info,
                                         device |-> Len(handles) + 1])
          /\ Finish(t, [NoResult EXCEPT !.op = "Open", !.dev = Len(devices) + 1])
    /\ UNCHANGED <<GOOS, attached, enumVars, closeReturned>>

\* device := C.hid_open_path(path): NULL (always possible; certain when the
\* device is gone), or a fresh handle, wrapped in a new Device.
OpenNative(t) ==
    /\ At(t, "open_native")
    /\ \/ /\ io' = [io EXCEPT ![t].calls = Append(@, OpenCall(Nil))]
          /\ Finish(t, [NoResult EXCEPT !.op = "Open", !.err = ErrOpenFailed])
          /\ UNCHANGED <<devices, handles>>
       \/ /\ io[t].info.Path \in attached
          /\ io' = [io EXCEPT ![t].calls = Append(@, OpenCall(Len(handles) + 1))]
          /\ handles' = Append(handles, [path |-> io[t].info.Path, state |-> "open",
                                         closes |-> 0])
          /\ devices' = Append(devices, [DeviceInfo |-> io[t].info,
                                         device |-> Len(handles) + 1])
          /\ Finish(t, [NoResult EXCEPT !.op = "Open", !.dev = Len(devices) + 1])
    /\ UNCHANGED <<GOOS, attached, enumVars, closeReturned>>

\* ------------------------------------------------------------ Device.Close
CallClose(t, d) ==
    /\ At(t, "idle")
    /\ pc' = [pc EXCEPT ![t] = "close_check"]
    /\ io' = [io EXCEPT ![t] = [NoIo EXCEPT !.dev = d,
                                            !.afterClose = (d \in closeReturned)]]
    /\ UNCHANGED <<GOOS, attached, enumVars, devices, handles, closeReturned,
                   result>>

\* if dev.device != nil; a nil handle goes straight to return nil.
CloseCheck(t) ==
    /\ At(t, "close_check")
    /\ LET d == io[t].dev
       IN IF devices[d].device # Nil
          THEN /\ pc' = [pc EXCEPT ![t] = "close_native"]
               /\ io' = [io EXCEPT ![t].device = devices[d].device]
               /\ UNCHANGED <<result, closeReturned>>
          ELSE /\ Finish(t, [NoResult EXCEPT !.op = "Close", !.dev = d])
               /\ closeReturned' = closeReturned \cup {d}
               /\ UNCHANGED io
    /\ UNCHANGED <<GOOS, attached, enumVars, devices, handles>>

\* C.hid_close(dev.device): the argument is the field as the check read it or
\* as it is now (the build may load it again).  hid_close(NULL) does nothing.
CloseNative(t) ==
    /\ At(t, "close_native")
    /\ \E h \in {io[t].device, devices[io[t].dev].device} :
        /\ io' = [io EXCEPT ![t].calls =
                                Append(@, Call("hid_close", h, <<>>, 0, 0, WNull))]
        /\ IF h = Nil
           THEN UNCHANGED handles
           ELSE handles' = [handles EXCEPT ![h].state = "closed",
                                           ![h].closes = @ + 1]
    /\ pc' = [pc EXCEPT ![t] = "close_store"]
    /\ UNCHANGED <<GOOS, attached, enumVars, devices, closeReturned, result>>

\* A Close that forgets to clear the handle.
CloseStore_KeepHandle(t) ==
    /\ At(t, "close_store")
    /\ Finish(t, [NoResult EXCEPT !.op = "Close", !.dev = io[t].dev])
    /\ closeReturned' = closeReturned \cup {io[t].dev}
    /\ UNCHANGED <<GOOS, attached, enumVars, devices, handles, io>>

\* A Close that clears the handle of every Device.
CloseStore_Every(t) ==
    /\ At(t, "close_store")
    /\ devices' = [d \in 1..Len(devices) |-> [devices[d] EXCEPT !.device = Nil]]
    /\ Finish(t, [NoResult EXCEPT !.op = "Close", !.dev = io[t].dev])
    /\ closeReturned' = closeReturned \cup {io[t].dev}
    /\ UNCHANGED <<GOOS, attached, enumVars, handles, io>>

\* dev.device = nil; return nil.
CloseStore(t) ==
    /\ At(t, "close_store")
    /\ devices' = [devices EXCEPT ![io[t].dev].device = Nil]
    /\ Finish(t, [NoResult EXCEPT !.op = "Close", !.dev = io[t].dev])
    /\ closeReturned' = closeReturned \cup {io[t].dev}
    /\ UNCHANGED <<GOOS, attached, enumVars, handles, io>>

\* ------------------------------------------------- DoWrite / DoRead: aborts
\* Checks that look at the handle before they look at the buffer.
Abort_ClosedFirst(b, device) ==
    IF device = Nil THEN "closed" ELSE IF Len(b) = 0 THEN "empty" ELSE "go"

\* Checks that never look at the handle.
Abort_NoNilCheck(b, device) == IF Len(b) = 0 THEN "empty" ELSE "go"

\* The two early returns DoWrite and DoRead open with, in their order:
\* if len(b) == 0 { return 0, nil }, then device := dev.device and
\* if device == nil { return 0, ErrDeviceClosed }.
Abort(b, device) ==
    IF Len(b) = 0 THEN "empty" ELSE IF device = Nil THEN "closed" ELSE "go"

\* ---------------------------------------------------------- Device.DoWrite
\* A caller enters dev.DoWrite(b, featureReport); Write(b) is the call with
\* featureReport = false.
CallDoWrite(t, d) ==
    /\ At(t, "idle")
    /\ pc' = [pc EXCEPT ![t] = "write_check"]
    /\ io' = [io EXCEPT ![t] = [NoIo EXCEPT !.dev = d,
                                            !.afterClose = (d \in closeReturned)]]
    /\ UNCHANGED <<GOOS, attached, enumVars, devices, handles, closeReturned,
                   result>>

\* The empty-payload check, the load of dev.device with its nil check, and
\* the framing of the report.
WriteCheck(t) ==
    /\ At(t, "write_check")
    /\ \E b \in Payloads, f \in BOOLEAN :
        LET device == devices[io[t].dev].device
            r == [NoResult EXCEPT !.op = "DoWrite", !.dev = io[t].dev]
        IN /\ io' = [io EXCEPT ![t].b = b, ![t].featureReport = f,
                               ![t].device = IF Abort(b, device) = "empty" THEN Nil
                                             ELSE device,
                               ![t].report = IF Abort(b, device) = "go"
                                             THEN Frame(GOOS, b) ELSE <<>>]
           /\ CASE Abort(b, device) = "empty" -> Finish(t, r)
                [] Abort(b, device) = "closed" ->
                        Finish(t, [r EXCEPT !.err = ErrDeviceClosed])
                [] OTHER -> /\ pc' = [pc EXCEPT ![t] = "write_native"]
                            /\ UNCHANGED result
    /\ UNCHANGED <<GOOS, attached, enumVars, devices, handles, closeReturned>>

\* The native function DoWrite calls.
WriteFn(featureReport) ==
    IF featureReport THEN "hid_send_feature_report" ELSE "hid_write"

\* A DoWrite that takes the report ID byte off the count it returns.
WriteReturn_PayloadCount(t, written) ==
    IF written = -1
    THEN /\ pc' = [pc EXCEPT ![t] = "get_error"]
         /\ UNCHANGED result
    ELSE Finish(t, [NoResult EXCEPT !.op = "DoWrite", !.dev = io[t].dev,
                                    !.n = IF GOOS = "windows" /\ written > 0
                                          THEN written - 1 ELSE written])

\* if written == -1 { return 0, dev.getError() }; return written, nil
WriteReturn(t, written) ==
    IF written = -1
    THEN /\ pc' = [pc EXCEPT ![t] = "get_error"]
         /\ UNCHANGED result
    ELSE Finish(t, [NoResult EXCEPT !.op = "DoWrite", !.dev = io[t].dev,
                                    !.n = written])

\* written = C.hid_send_feature_report / C.hid_write (device, report, len):
\* -1 sends DoWrite to getError, any other count is returned.
WriteNative(t) ==
    /\ At(t, "write_native")
    /\ \E written \in NativeResults(Len(io[t].report)) :
        /\ io' = [io EXCEPT ![t].calls =
                    Append(@, Call(WriteFn(io[t].featureReport), io[t].device,
                                   io[t].report, 0, written, WNull))]
        /\ WriteReturn(t, written)
    /\ UNCHANGED <<GOOS, attached, enumVars, devices, handles, closeReturned>>

\* ----------------------------------------------------------- Device.DoRead
\* A caller enters dev.DoRead(b, featureReport, timeout); Read(b) is the call
\* with featureReport = false and timeout = 0.
CallDoRead(t, d) ==
    /\ At(t, "idle")
    /\ pc' = [pc EXCEPT ![t] = "read_check"]
    /\ io' = [io EXCEPT ![t] = [NoIo EXCEPT !.dev = d,
                                            !.afterClose = (d \in closeReturned)]]
    /\ UNCHANGED <<GOOS, attached, enumVars, devices, handles, closeReturned,
                   result>>

\* The empty-buffer check and the load of dev.device with its nil check.
ReadCheck(t) ==
    /\ At(t, "read_check")
    /\ \E b \in Buffers :
        LET device == devices[io[t].dev].device
            r == [NoResult EXCEPT !.op = "DoRead", !.dev = io[t].dev]
        IN /\ io' = [io EXCEPT ![t].b = b,
                               ![t].device = IF Abort(b, device) = "empty" THEN Nil
                                             ELSE device]
           /\ CASE Abort(b, device) = "empty" -> Finish(t, r)
                [] Abort(b, device) = "closed" ->
                        Finish(t, [r EXCEPT !.err = ErrDeviceClosed])
                [] OTHER -> /\ pc' = [pc EXCEPT ![t] = "read_native"]
                            /\ UNCHANGED result
    /\ UNCHANGED <<GOOS, attached, enumVars, devices, handles, closeReturned>>

\* A dispatch that looks at the timeout before it looks at featureReport.
ReadFn_TimeoutFirst(featureReport, timeout) ==
    IF Positive(timeout) THEN "hid_read_timeout"
    ELSE IF featureReport THEN "hid_get_feature_report"
    ELSE "hid_read"

\* The native function DoRead calls.
ReadFn(featureReport, timeout) ==
    IF featureReport THEN "hid_get_feature_report"
    ELSE IF Positive(timeout) THEN "hid_read_timeout"
    ELSE "hid_read"

\* The buffer after the native layer stored n bytes in it.
Filled(b, n) == [i \in 1..Len(b) |-> IF i <= n THEN 255 ELSE b[i]]

\* A DoRead that takes a bounded read that timed out for a failure.
ReadReturn_TimeoutFails(t, fn, read) ==
    IF read = -1 \/ (fn = "hid_read_timeout" /\ read = 0)
    THEN /\ pc' = [pc EXCEPT ![t] = "get_error"]
         /\ UNCHANGED result
    ELSE Finish(t, [NoResult EXCEPT !.op = "DoRead", !.dev = io[t].dev,
                                    !.n = read])

\* if read == 0 { } after the bounded read does nothing;
\* if read == -1 { return 0, dev.getError() }; return read, nil
ReadReturn(t, fn, read) ==
    IF read = -1
    THEN /\ pc' = [pc EXCEPT ![t] = "get_error"]
         /\ UNCHANGED result
    ELSE Finish(t, [NoResult EXCEPT !.op = "DoRead", !.dev = io[t].dev,
                                    !.n = read])

\* read = C.hid_get_feature_report / C.hid_read_timeout / C.hid_read: -1
\* sends DoRead to getError, any other count is returned.
ReadNative(t) ==
    /\ At(t, "read_native")
    /\ \E f \in BOOLEAN, timeout \in Timeouts, read \in NativeResults(Len(io[t].b)) :
        LET fn == ReadFn(f, timeout)
            ms == IF fn = "hid_read_timeout" THEN CIntMillis(timeout) ELSE 0
        IN /\ io' = [io EXCEPT ![t].featureReport = f, ![t].timeout = timeout,
                               ![t].b = Filled(@, read),
                               ![t].calls = Append(@, Call(fn, io[t].device, io[t].b,
                                                           ms, read, WNull))]
           /\ ReadReturn(t, fn, read)
    /\ UNCHANGED <<GOOS, attached, enumVars, devices, handles, closeReturned>>

\* --------------------------------------------------------- Device.getError
\* An error path that marks the Device closed.
GetError_MarksClosed(t) ==
    /\ At(t, "get_error")
    /\ \E message \in Messages :
       \E cErrno \in (IF message.null THEN Errnos ELSE {0}) :
        /\ io' = [io EXCEPT ![t].calls =
                    Append(@, Call("hid_error", devices[io[t].dev].device, <<>>, 0,
                                   0, message))
                    \o (IF message.null
                        THEN <<Call("GoHidGetErrno", Nil, <<>>, 0, cErrno, WNull)>>
                        ELSE <<>>)]
        /\ Finish(t, [NoResult EXCEPT
                        !.op = IF io[t].report # <<>> THEN "DoWrite" ELSE "DoRead",
                        !.dev = io[t].dev,
                        !.err = ErrorOf(message, cErrno)])
    /\ devices' = [devices EXCEPT ![io[t].dev].device = Nil]
    /\ UNCHANGED <<GOOS, attached, enumVars, handles, closeReturned>>

\* return 0, dev.getError(): dev itself is never nil here; dev.device is
\* loaded again and handed to hid_error, and errno is read only when no
\* message comes back.  The native layer answers with any message, or none.
GetError(t) ==
    /\ At(t, "get_error")
    /\ \E message \in Messages :
       \E cErrno \in (IF message.null THEN Errnos ELSE {0}) :
        /\ io' = [io EXCEPT ![t].calls =
                    Append(@, Call("hid_error", devices[io[t].dev].device, <<>>, 0,
                                   0, message))
                    \o (IF message.null
                        THEN <<Call("GoHidGetErrno", Nil, <<>>, 0, cErrno, WNull)>>
                        ELSE <<>>)]
        /\ Finish(t, [NoResult EXCEPT
                        !.op = IF io[t].report # <<>> THEN "DoWrite" ELSE "DoRead",
                        !.dev = io[t].dev,
                        !.err = ErrorOf(message, cErrno)])
    /\ UNCHANGED <<GOOS, attached, enumVars, devices, handles, closeReturned>>

\* ---------------------------------------------------------- specifications
DevStep(t) ==
    \/ CallOpen(t)
    \/ OpenNative(t)
    \/ CloseCheck(t)
    \/ CloseNative(t)
    \/ CloseStore(t)
    \/ WriteCheck(t)
    \/ WriteNative(t)
    \/ ReadCheck(t)
    \/ ReadNative(t)
    \/ GetError(t)
    \/ Return(t)

DevNext ==
    \E t \in Threads :
        \/ DevStep(t)
        \/ \E d \in 1..Len(devices) :
            \/ CallClose(t, d)
            \/ CallDoWrite(t, d)
            \/ CallDoRead(t, d)

\* Threads that open, use and close Devices with no synchronisation.
SpecDev == Init /\ [][DevNext]_vars

\* The goroutine that uses the Devices when they are used by one goroutine.
Caller == CHOOSE t \in Threads : \A u \in Threads : t <= u

OneNext ==
    \/ Hotplug
    \/ DevStep(Caller)
    \/ \E d \in 1..Len(devices) :
        \/ CallClose(Caller, d)
        \/ CallDoWrite(Caller, d)
        \/ CallDoRead(Caller, d)

\* One goroutine opens, uses and closes Devices, while devices come and go:
\* every sequence of calls, none of them overlapping another.
SpecOne == Init /\ [][OneNext]_vars

Next == EnumNext \/ DevNext

Spec == Init /\ [][Next]_vars

\* ================================================================ claims
\* Thread t is inside the native enumeration section: at the call of
\* hid_enumerate, walking the list, or at the call of hid_free_enumeration.
InNative(t) == pc[t] \in {"enum_native", "enum_walk", "enum_free"}

\* C1: in every reachable state at most one thread is inside the native
\* enumeration section, and that thread holds enumerateLock, so no two
\* enumerations overlap in the native layer.
C1_OneEnumerationAtATime ==
    /\ \A t, u \in Threads : InNative(t) /\ InNative(u) => t = u
    /\ \A t \in Threads : InNative(t) => enumerateLock = t

\* One thread walks its list while another waits for the lock.
C1_Witness ==
    \E t, u \in Threads :
        /\ pc[t] = "enum_walk"
        /\ ef[t].head = 2
        /\ pc[u] = "enum_lock"

\* The records Enumerate is to return for a native list: one per node, in
\* the order of the list.
RecordsOf(nodes) == [i \in 1..Len(nodes) |-> ToDeviceInfo(nodes[i])]

\* C8: whatever the interleaving of concurrent Enumerate calls, a call
\* returns exactly one DeviceInfo per node of the list its own hid_enumerate
\* produced, in list order, and no call ever reads or frees a list that was
\* freed or invalidated.
C8_SnapshotPerCall ==
    /\ ~fault
    /\ \A t \in Threads :
        pc[t] = "done" /\ result[t].op = "Enumerate"
            => /\ result[t].infos = RecordsOf(nativeList[t].nodes)
               /\ nativeList[t].state \in {"none", "freed"}

\* A call returns the two records of its list while another call is on its
\* way (it waits for the lock).
C8_Witness ==
    \E t, u \in Threads :
        /\ pc[t] = "done"
        /\ result[t].op = "Enumerate"
        /\ Len(result[t].infos) = 2
        /\ result[t].infos[1].Path = "/dev/hidraw0"
        /\ result[t].infos[2].Path = "/dev/hidraw1"
        /\ pc[u] = "enum_lock"

\* Thread t has returned from a DoWrite or DoRead.
IoDone(t) == pc[t] = "done" /\ result[t].op \in {"DoWrite", "DoRead"}

\* The native read and write functions.
IoFns == {"hid_write", "hid_send_feature_report", "hid_read", "hid_read_timeout",
          "hid_get_feature_report"}

\* C2: a DoRead or DoWrite with a non-empty buffer that is called after a
\* Close has returned on the same Device, by any thread, returns
\* (0, ErrDeviceClosed) and makes no native call.
C2_ClosedAfterClose ==
    \A t \in Threads :
        /\ io[t].afterClose
              => pc[t] \notin {"write_native", "read_native", "get_error"}
        /\ IoDone(t) /\ io[t].afterClose /\ Len(io[t].b) > 0
              => /\ result[t].n = 0
                 /\ result[t].err = ErrDeviceClosed
                 /\ io[t].calls = <<>>

\* A thread gets ErrDeviceClosed for a non-empty read on a Device that
\* another thread is closing once more at that moment.
C2_Witness ==
    \E t, u \in Threads :
        /\ IoDone(t)
        /\ result[t].op = "DoRead"
        /\ io[t].afterClose
        /\ Len(io[t].b) > 0
        /\ result[t].err = ErrDeviceClosed
        /\ u # t
        /\ pc[u] = "close_check"
        /\ io[u].dev = io[t].dev

\* C3: over every sequence of calls on a Device, hid_close is invoked at
\* most once per Device: the first Close invokes it once and leaves the
\* handle nil, every further Close makes no native call and leaves the
\* Device closed, and every Close returns a nil error.
C3_CloseIdempotent ==
    /\ \A d \in 1..Len(devices) :
        /\ handles[d].closes <= 1
        /\ d \in closeReturned => devices[d].device = Nil /\ handles[d].closes = 1
    /\ \A t \in Threads :
        pc[t] = "done" /\ result[t].op = "Close"
            => /\ result[t].err = ErrNil
               /\ devices[io[t].dev].device = Nil
               /\ IF io[t].afterClose
                  THEN io[t].calls = <<>>
                  ELSE /\ Len(io[t].calls) = 1
                       /\ io[t].calls[1].fn = "hid_close"
                       /\ io[t].calls[1].handle = io[t].dev

\* A second Close on a Device has returned.
C3_Witness ==
    \E t \in Threads :
        /\ pc[t] = "done"
        /\ result[t].op = "Close"
        /\ io[t].afterClose
        /\ handles[io[t].dev].closes = 1

\* C4: a DoWrite or DoRead with an empty buffer returns (0, nil) and makes
\* no native call, on an open Device and on a closed one alike.
C4_EmptyBufferIsNoOp ==
    \A t \in Threads :
        IoDone(t) /\ Len(io[t].b) = 0
            => /\ result[t].n = 0
               /\ result[t].err = ErrNil
               /\ io[t].calls = <<>>

\* An empty DoWrite has returned on a Device that was closed before the call.
C4_Witness ==
    \E t \in Threads :
        /\ IoDone(t)
        /\ result[t].op = "DoWrite"
        /\ Len(io[t].b) = 0
        /\ io[t].afterClose
        /\ devices[io[t].dev].device = Nil
        /\ result[t].err = ErrNil

\* C5: a DoRead that is no feature read, has timeout > 0 and whose bounded
\* native read returns 0 returns (0, nil) after that one native call and
\* leaves the Device open with its handle.
C5_TimedOutReadIsSuccess ==
    \A t \in Threads :
        /\ IoDone(t)
        /\ result[t].op = "DoRead"
        /\ io[t].calls # <<>>
        /\ ~io[t].featureReport
        /\ Positive(io[t].timeout)
        /\ io[t].calls[1].n = 0
        => /\ result[t].n = 0
           /\ result[t].err = ErrNil
           /\ Len(io[t].calls) = 1
           /\ io[t].calls[1].fn = "hid_read_timeout"
           /\ devices[io[t].dev].device = io[t].calls[1].handle
           /\ devices[io[t].dev].device # Nil

\* A 100ms read has returned after its native read returned 0.
C5_Witness ==
    \E t \in Threads :
        /\ IoDone(t)
        /\ io[t].calls # <<>>
        /\ io[t].calls[1].fn = "hid_read_timeout"
        /\ io[t].calls[1].ms = 100
        /\ io[t].calls[1].n = 0
        /\ result[t].err = ErrNil

\* The native write of thread t, once it has been made.
Wrote(t) == io[t].calls # <<>> /\ io[t].calls[1].fn \in {"hid_write",
                                                        "hid_send_feature_report"}

\* C6: for every non-empty payload b written to an open Device the native
\* write receives 0x00 followed by b (len(b) + 1 bytes) on windows and b
\* itself elsewhere, for output and feature reports alike.
C6_ReportIdFraming ==
    \A t \in Threads :
        Wrote(t) =>
            LET data == io[t].calls[1].data
                b == io[t].b
            IN IF GOOS = "windows"
               THEN /\ Len(data) = Len(b) + 1
                    /\ data[1] = 0
                    /\ \A i \in 1..Len(b) : data[i + 1] = b[i]
               ELSE data = b

\* On windows the feature write of <<1, 0>> reached the native layer as
\* <<0, 1, 0>>.
C6_Witness ==
    \E t \in Threads :
        /\ Wrote(t)
        /\ GOOS = "windows"
        /\ io[t].featureReport
        /\ io[t].b = <<1, 0>>
        /\ io[t].calls[1].data = <<0, 1, 0>>

\* C7: when the native read or write of a call on an open Device returns
\* -1, the call returns count 0 and an error built from hid_error's answer
\* for that handle: the decoded message when there is one (errno is then
\* not read at all), and the errno read afterwards only when there is none.
C7_MessageBeforeErrno ==
    \A t \in Threads :
        IoDone(t) /\ io[t].calls # <<>> /\ io[t].calls[1].n = -1
            => /\ result[t].n = 0
               /\ Len(io[t].calls) >= 2
               /\ io[t].calls[2].fn = "hid_error"
               /\ io[t].calls[2].handle = io[t].calls[1].handle
               /\ LET msg == io[t].calls[2].msg
                  IN IF msg.null
                     THEN /\ Len(io[t].calls) = 3
                          /\ io[t].calls[3].fn = "GoHidGetErrno"
                          /\ result[t].err.kind = "hidapi: unknown failure. Errno: "
                          /\ result[t].err.code = io[t].calls[3].n
                     ELSE /\ Len(io[t].calls) = 2
                          /\ result[t].err.kind = "hidapi: "
                          /\ result[t].err.text = wcharTToString(msg).str
                          /\ msg = W(<<73, 233>>)
                                => result[t].err.text = <<73, 195, 169>>

\* A failed write has returned the driver's message.
C7_Witness ==
    \E t \in Threads :
        /\ IoDone(t)
        /\ result[t].op = "DoWrite"
        /\ io[t].calls # <<>>
        /\ io[t].calls[1].n = -1
        /\ result[t].err.kind = "hidapi: "
        /\ result[t].err.text = <<73, 195, 169>>

\* A failed call has returned errno 13, there being no message.
C7_WitnessErrno ==
    \E t \in Threads :
        /\ IoDone(t)
        /\ io[t].calls # <<>>
        /\ io[t].calls[1].n = -1
        /\ result[t].err.kind = "hidapi: unknown failure. Errno: "
        /\ result[t].err.code = 13

\* Some Close call has reached the native close of Device d, or got past it.
CloseTouched(d) ==
    \/ d \in closeReturned
    \/ \E t \in Threads : pc[t] \in {"close_store", "done"} /\ io[t].dev = d
                          /\ io[t].calls # <<>> /\ io[t].calls[1].fn = "hid_close"

\* C9: with several Devices open, a step changes the handle of a Device
\* only if it is the store of a Close on that very Device; a Device no
\* Close has touched stays open with the handle Open gave it, and every
\* native read or write of a call on a Device receives that Device's own
\* handle.
C9_CloseTouchesOnlyItsDevice ==
    [][/\ \A d \in 1..Len(devices) :
            devices'[d].device # devices[d].device
                => /\ devices'[d].device = Nil
                   /\ \E t \in Threads : /\ pc[t] = "close_store"
                                         /\ pc'[t] = "done"
                                         /\ io[t].dev = d
       /\ \A d \in 1..Len(devices) :
            ~CloseTouched(d) => devices[d].device = d /\ handles[d].state = "open"
       /\ \A t \in Threads :
            io[t].calls # <<>> /\ io[t].calls[1].fn \in IoFns
                => io[t].calls[1].handle = io[t].dev]_vars

\* A write on one Device has reached the native layer with that Device's
\* handle while the other Device is closed.
C9_Witness ==
    \E t \in Threads, d \in 1..Len(devices) :
        /\ IoDone(t)
        /\ result[t].op = "DoWrite"
        /\ io[t].calls # <<>>
        /\ io[t].dev # d
        /\ io[t].calls[1].handle = io[t].dev
        /\ devices[io[t].dev].device = io[t].dev
        /\ d \in closeReturned
        /\ devices[d].device = Nil
        /\ handles[d].closes = 1

\* C10: Open returns (nil, error) when hid_open_path returns NULL, and
\* otherwise a Device whose handle is the handle returned and whose
\* DeviceInfo is the record Open was called on; a Device has a nil handle
\* only once a Close has stored it.
C10_OpenOutcome ==
    /\ \A t \in Threads :
        pc[t] = "done" /\ result[t].op = "Open"
            => /\ Len(io[t].calls) = 1
               /\ io[t].calls[1].fn = "hid_open_path"
               /\ IF io[t].calls[1].handle = Nil
                  THEN result[t].err = ErrOpenFailed /\ result[t].dev = Nil
                  ELSE /\ result[t].err = ErrNil
                       /\ result[t].dev \in 1..Len(devices)
                       /\ devices[result[t].dev].device = io[t].calls[1].handle
                       /\ devices[result[t].dev].DeviceInfo = io[t].info
                       /\ handles[io[t].calls[1].handle].state = "open"
    /\ \A d \in 1..Len(devices) : devices[d].device = Nil => CloseTouched(d)

\* An Open of a device that is no longer attached has failed, while a Device
\* opened earlier is still open.
C10_Witness ==
    \E t \in Threads :
        /\ pc[t] = "done"
        /\ result[t].op = "Open"
        /\ io[t].info.Path = "/dev/hidraw1"
        /\ result[t].err = ErrOpenFailed
        /\ Len(devices) = 1
        /\ devices[1].device # Nil
        /\ devices[1].DeviceInfo = ToDeviceInfo(NativeInfo("/dev/hidraw0"))

\* Thread t has returned from Enumerate.
EnumDone(t) == pc[t] = "done" /\ result[t].op = "Enumerate"

\* C11: for every (vendorID, productID) and every set of attached devices,
\* every record Enumerate(vendorID, productID) returns, and every record it
\* has copied so far, has the vendor id asked for unless that was 0, and the
\* product id asked for unless that was 0.
C11_MatchingRule ==
    \A t \in Threads :
        /\ \A i \in 1..Len(ef[t].infos) :
            /\ ef[t].vendorID = 0 \/ ef[t].infos[i].VendorID = ef[t].vendorID
            /\ ef[t].productID = 0 \/ ef[t].infos[i].ProductID = ef[t].productID
        /\ EnumDone(t) => result[t].infos = ef[t].infos

\* With both devices attached, Enumerate(0, 2) has returned the one device
\* whose product id is 2.
C11_Witness ==
    \E t \in Threads :
        /\ EnumDone(t)
        /\ attached = Paths
        /\ ef[t].vendorID = 0
        /\ ef[t].productID = 2
        /\ Len(result[t].infos) = 1
        /\ result[t].infos[1].Path = "/dev/hidraw1"
        /\ result[t].infos[1].VendorID = 1

\* C12: when hid_enumerate returns a null list, Enumerate returns an empty
\* sequence, never calls hid_free_enumeration, and no longer holds
\* enumerateLock when it returns.
C12_NullListIsEmptyResult ==
    \A t \in Threads :
        /\ pc[t] = "enum_unlock" /\ nativeList[t].nodes = <<>>
            => ef[t].frees = <<>> /\ ef[t].infos = <<>> /\ enumerateLock = t
        /\ EnumDone(t) /\ nativeList[t].nodes = <<>>
            => /\ result[t].infos = <<>>
               /\ ef[t].frees = <<>>
               /\ nativeList[t].state = "none"
               /\ enumerateLock # t

\* Enumerate(2, 0) has returned nothing although a device is attached, and
\* the lock is free for the thread that waits for it.
C12_Witness ==
    \E t, u \in Threads :
        /\ EnumDone(t)
        /\ ef[t].vendorID = 2
        /\ attached # {}
        /\ nativeList[t].nodes = <<>>
        /\ result[t].infos = <<>>
        /\ enumerateLock = Nil
        /\ pc[u] = "enum_lock"

\* C13: an Enumerate call that obtained a non-null list calls
\* hid_free_enumeration exactly once, with the original head of that list
\* (its first node, 1) and not the walk cursor: not before the walk has copied every node, and
\* before enumerateLock is released and the call returns, also when a text
\* field of a node does not decode.
C13_FreeOnceOnOriginalHead ==
    \A t \in Threads :
        nativeList[t].nodes # <<>> =>
            /\ pc[t] \in {"enum_walk", "enum_free"}
                => ef[t].frees = <<>> /\ nativeList[t].state = "live"
            /\ pc[t] \in {"enum_unlock", "done"}
                => /\ ef[t].frees = <<1>>
                   /\ nativeList[t].state = "freed"
                   /\ ef[t].head = Nil
                   /\ Len(ef[t].infos) = Len(nativeList[t].nodes)
            /\ pc[t] = "enum_unlock" => enumerateLock = t

\* A call has freed its two-node list and is about to unlock; the first
\* node's manufacturer string did not decode and was copied as empty.
C13_Witness ==
    \E t \in Threads :
        /\ pc[t] = "enum_unlock"
        /\ Len(nativeList[t].nodes) = 2
        /\ wcharTToString(nativeList[t].nodes[1].manufacturer_string).failed
        /\ ef[t].infos[1].Manufacturer = <<>>
        /\ ef[t].head = Nil
        /\ ef[t].frees = <<1>>
        /\ enumerateLock = t

\* Thread t holds enumerateLock legitimately: it is between Lock and Unlock.
Locked(t) == pc[t] \in {"enum_native", "enum_walk", "enum_free", "enum_unlock"}

\* C14: enumerateLock is held only by a thread between its Lock and its
\* deferred Unlock, so it is free whenever no Enumerate call is active and
\* after every return (null list or not); and under fair scheduling every
\* thread that calls Enumerate acquires the lock and returns.
C14_LockReleasedAndProgress ==
    /\ [](\A t \in Threads : enumerateLock = t => Locked(t))
    /\ [](enumerateLock # Nil => \E t \in Threads : enumerateLock = t)
    /\ \A t \in Threads : (pc[t] = "enum_lock") ~> EnumDone(t)

\* A thread waits for the lock another thread holds on the null-list path.
C14_Witness ==
    \E t, u \in Threads :
        /\ pc[t] = "enum_unlock"
        /\ nativeList[t].nodes = <<>>
        /\ enumerateLock = t
        /\ pc[u] = "enum_lock"

\* The native calls thread t has made in its current call.
CallsOf(t) == {io[t].calls[i] : i \in 1..Len(io[t].calls)}

\* C15 as stated: in every interleaving of Close, DoRead and DoWrite calls
\* of several threads on a Device, no native call (read, write, feature
\* read or write, hid_error, hid_close) receives a handle that hid_close
\* has already been invoked on.
C15_NoNativeUseAfterClose ==
    \A t \in Threads : \A c \in CallsOf(t) : ~c.stale

\* C15, amended: in every interleaving, a native call with a handle that
\* hid_close has already been invoked on is made only by a call that was
\* entered before any Close on that Device had returned; a Close, DoRead or
\* DoWrite entered after a Close on the Device has returned hands no handle
\* to the native layer.
C15_NoUseAfterCloseReturned ==
    \A t \in Threads :
        /\ \A c \in CallsOf(t) : c.stale => ~io[t].afterClose
        /\ io[t].afterClose => \A c \in CallsOf(t) : c.handle = Nil

\* A second Close on a Device has returned without a native call, while a
\* read that was entered before the first Close returned has handed the
\* released handle to the native layer.
C15_Witness ==
    \E t, u \in Threads :
        /\ pc[t] = "done"
        /\ result[t].op = "Close"
        /\ io[t].afterClose
        /\ io[t].calls = <<>>
        /\ u # t
        /\ io[u].dev = io[t].dev
        /\ pc[u] = "get_error"
        /\ io[u].calls[1].fn \in {"hid_read", "hid_read_timeout",
                                  "hid_get_feature_report"}
        /\ io[u].calls[1].stale

\* C16: whenever getError runs for a Device whose handle is nil (a Close
\* ran between the failing native call and getError), it returns
\* ErrDeviceClosed and does not call hid_error with the nil handle.
C16_AbsentHandleIsDeviceClosed ==
    \A t \in Threads :
        /\ \A c \in CallsOf(t) : c.fn = "hid_error" => c.handle # Nil
        /\ IoDone(t) /\ io[t].calls # <<>> /\ io[t].calls[1].n = -1
              /\ (\A c \in CallsOf(t) : c.fn # "hid_error")
            => result[t].err = ErrDeviceClosed

\* The native reads and writes thread t has made in its current call.
IoCallsOf(t) == {i \in 1..Len(io[t].calls) : io[t].calls[i].fn \in IoFns}

\* Thread t has returned from op on a Device that is open, with a buffer
\* that is not empty.
OpenIoDone(t, op) ==
    /\ IoDone(t)
    /\ result[t].op = op
    /\ Len(io[t].b) > 0
    /\ devices[io[t].dev].device # Nil

\* What a call returns for the native result n: (0, error) for -1, (n, nil)
\* for anything else.
ReturnsCount(t, n) ==
    IF n = -1
    THEN result[t].n = 0 /\ result[t].err # ErrNil
    ELSE result[t].n = n /\ result[t].err = ErrNil

\* C17: a DoRead with a non-empty buffer on an open Device makes exactly
\* one native read: the feature-report read when featureReport is true,
\* whatever the timeout; else the bounded read when timeout > 0 (0.5ms,
\* 100ms, 2^31 ms); else, for a zero or negative timeout, the blocking read.
\* A native result of -1 gives (0, error), any other n gives (n, nil).
C17_ReadDispatch ==
    \A t \in Threads :
        OpenIoDone(t, "DoRead") =>
            /\ IoCallsOf(t) = {1}
            /\ io[t].calls[1].fn =
                 IF io[t].featureReport THEN "hid_get_feature_report"
                 ELSE IF io[t].timeout \in {Dur(FALSE, 0, 0, 500000),
                                            Dur(FALSE, 0, 100, 0),
                                            Dur(FALSE, 1, 0, 0)}
                      THEN "hid_read_timeout"
                      ELSE "hid_read"
            /\ io[t].timeout \in {ZeroDur, Dur(TRUE, 0, 1, 0)} /\ ~io[t].featureReport
                 => io[t].calls[1].fn = "hid_read"
            /\ ReturnsCount(t, io[t].calls[1].n)

\* A feature read with a 100ms timeout has returned the two bytes the
\* feature-report read stored.
C17_Witness ==
    \E t \in Threads :
        /\ OpenIoDone(t, "DoRead")
        /\ io[t].featureReport
        /\ io[t].timeout = Dur(FALSE, 0, 100, 0)
        /\ io[t].calls[1].fn = "hid_get_feature_report"
        /\ result[t].n = 2
        /\ io[t].b = <<255, 255>>

\* A read with a negative timeout has failed in the blocking read.
C17_WitnessBlocking ==
    \E t \in Threads :
        /\ OpenIoDone(t, "DoRead")
        /\ io[t].timeout = Dur(TRUE, 0, 1, 0)
        /\ io[t].calls[1].fn = "hid_read"
        /\ io[t].calls[1].n = -1
        /\ result[t].err # ErrNil

\* C18: a DoWrite with a non-empty payload on an open Device makes exactly
\* one native write, hid_send_feature_report when featureReport is true and
\* hid_write otherwise; a native result of -1 gives (0, error) and any other
\* n is returned as (n, nil), the report ID byte of windows included.
C18_WriteRouting ==
    \A t \in Threads :
        OpenIoDone(t, "DoWrite") =>
            /\ IoCallsOf(t) = {1}
            /\ io[t].featureReport => io[t].calls[1].fn = "hid_send_feature_report"
            /\ ~io[t].featureReport => io[t].calls[1].fn = "hid_write"
            /\ ReturnsCount(t, io[t].calls[1].n)

\* On windows an output report of two bytes has returned the count 3.
C18_Witness ==
    \E t \in Threads :
        /\ OpenIoDone(t, "DoWrite")
        /\ GOOS = "windows"
        /\ ~io[t].featureReport
        /\ Len(io[t].b) = 2
        /\ io[t].calls[1].fn = "hid_write"
        /\ io[t].calls[1].n = 3
        /\ result[t].n = 3
        /\ result[t].err = ErrNil

\* C19: for every DoRead that is no feature read and has timeout > 0, the
\* millisecond argument of hid_read_timeout is the timeout in whole
\* milliseconds (hi * 2^31 + lo, which an int can only equal with hi = 0)
\* and is never negative, for sub-millisecond timeouts and for timeouts of
\* more than 2^31 - 1 milliseconds too.
C19_TimeoutInMilliseconds ==
    \A t \in Threads : \A c \in CallsOf(t) :
        c.fn = "hid_read_timeout" =>
            /\ c.ms >= 0
            /\ io[t].timeout.hi = 0
            /\ c.ms = io[t].timeout.lo

\* The positions of a thread inside DoWrite, DoRead and getError.
IoPcs == {"write_check", "write_native", "read_check", "read_native", "get_error"}

\* C20: no step of DoWrite, DoRead or getError changes the handle of a
\* Device or the state of a native handle, whatever the call's outcome: a
\* failed, timed-out or empty call on an open Device leaves it open with the
\* handle Open gave it and not yet closed, and the first Close on it then
\* invokes hid_close exactly once.
C20_OnlyCloseChangesHandle ==
    [][/\ \A t \in Threads :
            pc[t] \in IoPcs /\ pc'[t] # pc[t]
                => devices' = devices /\ handles' = handles
       /\ \A t \in Threads :
            IoDone(t) /\ ~io[t].afterClose
                => /\ devices[io[t].dev].device = io[t].dev
                   /\ handles[io[t].dev].state = "open"
                   /\ handles[io[t].dev].closes = 0
       /\ \A t \in Threads :
            pc[t] = "done" /\ result[t].op = "Close" /\ ~io[t].afterClose
                => handles[io[t].dev].closes = 1]_vars

\* A read has failed in the native layer and the Device is still open with
\* its handle.
C20_Witness ==
    \E t \in Threads :
        /\ IoDone(t)
        /\ result[t].op = "DoRead"
        /\ io[t].calls # <<>>
        /\ io[t].calls[1].n = -1
        /\ result[t].err # ErrNil
        /\ devices[io[t].dev].device = io[t].dev
        /\ handles[io[t].dev].state = "open"

=============================================================================
